---- MODULE Spec2Model ----
(***************************************************************************)
(* State-machine model of the Yellfront OAuth relay (src/server.js): the   *)
(* pending-state map, its periodic sweep, and the HTTP handlers            *)
(* /precombopulator/health, /auth, /yellfront (callback) and /refresh.     *)
(*                                                                         *)
(* Time is counted in whole minutes.  A handler runs to completion between *)
(* two awaits (Node's single-threaded event loop), so every action below   *)
(* is one synchronous segment of a handler or of the timer callback.       *)
(* The rate limiters and helmet run before the handlers and are outside    *)
(* the model: a request that appears here is one that reached its handler. *)
(***************************************************************************)
EXTENDS Integers, Sequences, FiniteSets, TLC

VARIABLES
    now,            \* Date.now(), in minutes since process start
    nextSweep,      \* time at which the setInterval callback is next due
    env,            \* process.env.DEFAULT_RETURN_URL
    issuedCount,    \* number of values uuidv4() has returned so far
    pendingStates,  \* the Map: state token -> [created, returnUrl, ip]
    handlers,       \* suspended async handlers: id -> continuation
    resp,           \* the HTTP response sent by the latest step, if any
    log,            \* the console entries written by the latest step
    begun,          \* history: token -> the record stored when it was issued
    passed          \* history: token -> number of callbacks that passed state validation

vars == <<now, nextSweep, env, issuedCount, pendingStates, handlers, resp, log, begun, passed>>

----------------------------------------------------------------------------
\* Bounds of the model.

\* last minute the clock reaches
MaxTime == 16
\* number of async handlers that may be suspended at the same time
MaxHandlers == 2
\* the history counter `passed` saturates here
MaxPassed == 2
\* the same, in the specifications of the whole server and of its progress
MaxServerHandlers == 1
\* last minute the clock reaches in the specification of progress
LiveMaxTime == 20

\* Program constants, in minutes.
\* 10 * 60 * 1000 ms
EXPIRY_MINUTES == 10
\* 5 * 60 * 1000 ms
SWEEP_PERIOD_MINUTES == 5

----------------------------------------------------------------------------
\* Values.

\* a query parameter, body field or environment variable that is not there (undefined)
Absent == "<undefined>"

\* JavaScript truthiness of a string-or-undefined value
Truthy(v) == v # Absent /\ v # ""

\* The values uuidv4() returns in one run, in order.  They are random 122-bit
\* values; the model takes them to be pairwise distinct, so that every call
\* returns a value no earlier call returned.
Uuids == <<"uuid-1", "uuid-2">>

\* the value of the (k+1)-th call of uuidv4()
uuidv4(k) == Uuids[k + 1]

MaxTokens == Len(Uuids)

Tokens == {uuidv4(k) : k \in 0..(MaxTokens - 1)}

IssuedTokens == {uuidv4(k) : k \in 0..(issuedCount - 1)}

ReturnUrl == "https://app.example/dash"

\* the requests that start a flow: the return_url query parameter and req.ip
Initiators ==
    {[return_url |-> Absent, ip |-> "1.2.3.4"],
     [return_url |-> "", ip |-> "1.2.3.4"],
     [return_url |-> ReturnUrl, ip |-> "5.6.7.8"]}

\* the values of process.env.DEFAULT_RETURN_URL
DefaultReturnUrls == {Absent, "/home?tab=1"}

\* String.prototype.includes('?') on the return URLs of the model
IncludesQuestionMark(url) == url \in {"/home?tab=1"}

\* e-mail addresses as sequences of characters
Emails == {<<"a", "@", "x", ".", "i", "o">>}

\* encodeURIComponent on one character: unreserved characters are kept,
\* the rest is percent-encoded
EncodeChar(c) ==
    IF c = "@" THEN <<"%", "4", "0">>
    ELSE IF c = "?" THEN <<"%", "3", "F">>
    ELSE IF c = "&" THEN <<"%", "2", "6">>
    ELSE IF c = "=" THEN <<"%", "3", "D">>
    ELSE <<c>>

RECURSIVE encodeURIComponent(_)
encodeURIComponent(s) ==
    IF s = <<>> THEN <<>> ELSE EncodeChar(Head(s)) \o encodeURIComponent(Tail(s))

\* a sequence of characters as one string
RECURSIVE Join(_)
Join(s) == IF s = <<>> THEN "" ELSE Head(s) \o Join(Tail(s))

\* process.env.GOOGLE_CLIENT_SECRET
ClientSecret == "GOCSPX-secret"

\* the authorization code of a callback request
AuthorizationCode == "4/0Acode"

\* the refresh token a client sends to POST /refresh
RefreshToken == "1//refresh"

\* req.ip of the callback requests
CallerIp == "6.6.6.6"

\* one console entry: console.log / console.warn / console.error with a
\* message and the values printed after it, by name
LogEntry(level, message, values) == [level |-> level, message |-> message, values |-> values]

NoLog == <<>>

----------------------------------------------------------------------------
\* The Map operations used on pendingStates.

\* the value of Map.get on a missing key
Undefined == [undefined |-> TRUE]

\* faulty variant: a missing key yields a default record: pendingStates.get(state) || {...}
MapGet_OrDefault(m, k) ==
    IF k \in DOMAIN m THEN m[k] ELSE [created |-> 0, returnUrl |-> "/", ip |-> ""]

MapGet(m, k) == IF k \in DOMAIN m THEN m[k] ELSE Undefined

MapSet(m, k, v) == [x \in (DOMAIN m) \cup {k} |-> IF x = k THEN v ELSE m[x]]

MapDelete(m, k) == [x \in (DOMAIN m) \ {k} |-> m[x]]

EmptyMap == [x \in {} |-> Undefined]

----------------------------------------------------------------------------
\* Responses.

NoResponse == [route |-> "none"]

Idle == [pc |-> "idle"]

IdleHandlers == {h \in DOMAIN handlers : handlers[h].pc = "idle"}

\* the handler slot a newly suspended handler occupies
FreeHandler == CHOOSE h \in IdleHandlers : \A g \in IdleHandlers : h <= g

\* the history of a token at the moment a callback presents it
History(state) ==
    IF state \in DOMAIN pendingStates THEN "live"
    ELSE IF state \notin IssuedTokens THEN "never"
    ELSE IF passed[state] > 0 THEN "consumed"
    ELSE "swept"

Bump(n) == IF n < MaxPassed THEN n + 1 ELSE n

----------------------------------------------------------------------------
\* what the callback of app.listen prints
StartupLog ==
    <<LogEntry("log", "Yellfront OAuth server running on port", [port |-> "3847"]),
      LogEntry("log", "Callback URL:", [redirect_uri |-> "GOOGLE_REDIRECT_URI"])>>

Init ==
    /\ now = 0
    /\ nextSweep = SWEEP_PERIOD_MINUTES
    /\ env \in DefaultReturnUrls
    /\ issuedCount = 0
    /\ pendingStates = EmptyMap
    /\ handlers = [h \in 1..MaxHandlers |-> Idle]
    /\ resp = NoResponse
    /\ log = StartupLog
    /\ begun = EmptyMap
    /\ passed = [t \in Tokens |-> 0]

\* One minute passes.  The interval timer fires when it is due, so the clock
\* does not move past nextSweep before the sweep has run.
Tick ==
    /\ now < MaxTime
    /\ now < nextSweep
    /\ now' = now + 1
    /\ resp' = NoResponse
    /\ log' = NoLog
    /\ UNCHANGED <<nextSweep, env, issuedCount, pendingStates, handlers, begun, passed>>

\* faulty variant: the threshold is taken in the wrong unit and is never exceeded
SweepExpired_WrongUnit(m, t) ==
    [s \in {k \in DOMAIN m : ~(t - m[k].created > EXPIRY_MINUTES * 60)} |-> m[s]]

\* faulty variant: a record is removed as soon as its age reaches the threshold
SweepExpired_AtThreshold(m, t) ==
    [s \in {k \in DOMAIN m : ~(t - m[k].created >= EXPIRY_MINUTES)} |-> m[s]]

\* the body of the setInterval callback, as a function of the map and Date.now()
SweepExpired(m, t) ==
    [s \in {k \in DOMAIN m : ~(t - m[k].created > EXPIRY_MINUTES)} |-> m[s]]

\* the setInterval callback runs
SweepTimer ==
    /\ now = nextSweep
    /\ pendingStates' = SweepExpired(pendingStates, now)
    /\ nextSweep' = nextSweep + SWEEP_PERIOD_MINUTES
    /\ resp' = NoResponse
    /\ log' = NoLog
    /\ UNCHANGED <<now, env, issuedCount, handlers, begun, passed>>

\* faulty variant: the health probe empties the map
Health_Resets ==
    /\ resp' = [route |-> "health", status |-> 200,
                body |-> [status |-> "ok", timestamp |-> now]]
    /\ log' = NoLog
    /\ pendingStates' = EmptyMap
    /\ UNCHANGED <<now, nextSweep, env, issuedCount, handlers, begun, passed>>

\* GET /precombopulator/health
Health ==
    /\ resp' = [route |-> "health", status |-> 200,
                body |-> [status |-> "ok", timestamp |-> now]]
    /\ log' = NoLog
    /\ UNCHANGED <<now, nextSweep, env, issuedCount, pendingStates, handlers, begun, passed>>

\* faulty variant: the configured default takes precedence over the query parameter
ChooseReturnUrl_DefaultFirst(return_url, default) ==
    IF Truthy(default) THEN default
    ELSE IF Truthy(return_url) THEN return_url
    ELSE "/"

\* req.query.return_url || process.env.DEFAULT_RETURN_URL || '/'
ChooseReturnUrl(return_url, default) ==
    IF Truthy(return_url) THEN return_url
    ELSE IF Truthy(default) THEN default
    ELSE "/"

\* oauth2Client.generateAuthUrl({access_type, scope, state, prompt})
generateAuthUrl(state) ==
    [host |-> "accounts.google.com", access_type |-> "offline", scope |-> "SCOPES",
     state |-> state, prompt |-> "consent", client_id |-> "GOOGLE_CLIENT_ID",
     redirect_uri |-> "GOOGLE_REDIRECT_URI"]

\* the record stored by GET /auth
NewPendingState(returnUrl, ip) == [created |-> now, returnUrl |-> returnUrl, ip |-> ip]

\* faulty variant: the same key for every flow
NewState_Reused == uuidv4(0)

\* the key under which GET /auth stores the record: the value uuidv4() returns
NewState == uuidv4(issuedCount)

\* GET /precombopulator/auth
AuthBegin(return_url, ip) ==
    /\ issuedCount < MaxTokens
    /\ LET state == NewState
           returnUrl == ChooseReturnUrl(return_url, env)
       IN /\ pendingStates' = MapSet(pendingStates, state, NewPendingState(returnUrl, ip))
          /\ begun' = MapSet(begun, uuidv4(issuedCount), [returnUrl |-> returnUrl, ip |-> ip])
          /\ resp' = [route |-> "auth", status |-> 302, location |-> generateAuthUrl(state)]
    /\ log' = NoLog
    /\ issuedCount' = issuedCount + 1
    /\ UNCHANGED <<now, nextSweep, env, handlers, passed>>

\* the query of a callback request: {code, state, error} and format
CallbackRequests ==
    [code : {Absent, "", AuthorizationCode},
     state : {Absent, "nonexistent-token"} \cup Tokens,
     error : {Absent, "access_denied"},
     format : {Absent, "json"}]

\* the answers of the callback before its first await
ProviderErrorResponse(error) ==
    [route |-> "callback", status |-> 400,
     body |-> [error |-> "Google OAuth error: " \o error]]

MissingParamsResponse ==
    [route |-> "callback", status |-> 400,
     body |-> [error |-> "Missing required parameters"]]

\* faulty variant: an expired state gets a message of its own
InvalidStateResponse_Leaky(history) ==
    [route |-> "callback", status |-> 400,
     body |-> [error |-> IF history = "swept" THEN "State expired. Please try again."
                         ELSE "Invalid or expired state. Please try again."],
     history |-> history]

InvalidStateResponse(history) ==
    [route |-> "callback", status |-> 400,
     body |-> [error |-> "Invalid or expired state. Please try again."],
     history |-> history]

\* what the suspended handler keeps of the record it found: the fields of
\* pendingState other than created, which nothing reads after the lookup
Kept(pendingState) == [returnUrl |-> pendingState.returnUrl, ip |-> pendingState.ip]

\* faulty variant: the used state is not removed
RemoveUsedState_Forgotten(m, state) == m

\* pendingStates.delete(state), right after the lookup
RemoveUsedState(m, state) == MapDelete(m, state)

\* faulty variant: the state is validated before the parameters are checked
CallbackEarlyReturn_StateFirst(req) ==
    IF Truthy(req.error) THEN
        ProviderErrorResponse(req.error)
    ELSE IF MapGet(pendingStates, req.state) = Undefined THEN
        InvalidStateResponse(History(req.state))
    ELSE IF ~Truthy(req.code) \/ ~Truthy(req.state) THEN
        MissingParamsResponse
    ELSE NoResponse

\* GET /precombopulator/yellfront, the checks before the state is used: the
\* response of the early return the request runs into, NoResponse if none
CallbackEarlyReturn(req) ==
    IF Truthy(req.error) THEN
        \* Google returned an error
        ProviderErrorResponse(req.error)
    ELSE IF ~Truthy(req.code) \/ ~Truthy(req.state) THEN
        \* Missing required params
        MissingParamsResponse
    ELSE IF MapGet(pendingStates, req.state) = Undefined THEN
        \* Validate state (CSRF protection)
        InvalidStateResponse(History(req.state))
    ELSE NoResponse

\* what the callback prints on the way to its early return
CallbackEarlyLog(req) ==
    IF Truthy(req.error) THEN
        <<LogEntry("error", "OAuth error from Google:", [error |-> req.error])>>
    ELSE IF ~Truthy(req.code) \/ ~Truthy(req.state) THEN
        <<LogEntry("warn", "Missing code or state in callback", [ip |-> CallerIp])>>
    ELSE IF MapGet(pendingStates, req.state) = Undefined THEN
        <<LogEntry("warn", "Invalid or expired state", [state |-> req.state, ip |-> CallerIp])>>
    ELSE NoLog

\* faulty variant: a denial reported by the provider ends the flow of its state
Callback_DenialConsumes(req) ==
    IF CallbackEarlyReturn(req) # NoResponse THEN
        /\ resp' = CallbackEarlyReturn(req)
        /\ log' = CallbackEarlyLog(req)
        /\ pendingStates' = IF Truthy(req.error) THEN MapDelete(pendingStates, req.state)
                            ELSE pendingStates
        /\ UNCHANGED <<now, nextSweep, env, issuedCount, handlers, begun, passed>>
    ELSE
        /\ IdleHandlers # {}
        /\ pendingStates' = RemoveUsedState(pendingStates, req.state)
        /\ handlers' = [handlers EXCEPT ![FreeHandler] =
                           [pc |-> "getToken", req |-> req,
                            pendingState |-> Kept(MapGet(pendingStates, req.state)),
                            calls |-> 1]]
        /\ passed' = [passed EXCEPT ![req.state] = Bump(@)]
        /\ resp' = NoResponse
        /\ log' = NoLog
        /\ UNCHANGED <<now, nextSweep, env, issuedCount, begun>>

\* GET /precombopulator/yellfront, from entry to the early return or to the
\* first await (getToken)
Callback(req) ==
    IF CallbackEarlyReturn(req) # NoResponse THEN
        /\ resp' = CallbackEarlyReturn(req)
        /\ log' = CallbackEarlyLog(req)
        /\ UNCHANGED <<now, nextSweep, env, issuedCount, pendingStates, handlers, begun, passed>>
    ELSE
        \* Remove used state, then call getToken(code) and suspend
        /\ IdleHandlers # {}
        /\ pendingStates' = RemoveUsedState(pendingStates, req.state)
        /\ handlers' = [handlers EXCEPT ![FreeHandler] =
                           [pc |-> "getToken", req |-> req,
                            pendingState |-> Kept(MapGet(pendingStates, req.state)),
                            calls |-> 1]]
        /\ passed' = [passed EXCEPT ![req.state] = Bump(@)]
        /\ resp' = NoResponse
        /\ log' = NoLog
        /\ UNCHANGED <<now, nextSweep, env, issuedCount, begun>>

\* what the catch block answers; `state` notes which request is answered and
\* `after` which awaited call rejected
ExchangeFailedResponse(h) ==
    [route |-> "callback", status |-> 500,
     body |-> [error |-> "Failed to exchange authorization code"],
     state |-> handlers[h].req.state, after |-> handlers[h].pc]

\* faulty variant: the catch block prints the whole error object
ExchangeFailedLog_WholeError(err) ==
    <<LogEntry("error", "Token exchange failed:",
               [message |-> err.message, client_secret |-> err.config.client_secret,
                code |-> err.config.code])>>

\* what the catch block prints: err.message
ExchangeFailedLog(err) ==
    <<LogEntry("error", "Token exchange failed:", [message |-> err.message])>>

\* faulty variant: a failed exchange puts the state back so that the callback can be retried
GetTokenRejects_Restores(h, err) ==
    /\ handlers[h].pc = "getToken"
    /\ resp' = ExchangeFailedResponse(h)
    /\ log' = ExchangeFailedLog(err)
    /\ handlers' = [handlers EXCEPT ![h] = Idle]
    /\ pendingStates' = MapSet(pendingStates, handlers[h].req.state,
                              [created |-> now,
                               returnUrl |-> handlers[h].pendingState.returnUrl,
                               ip |-> handlers[h].pendingState.ip])
    /\ UNCHANGED <<now, nextSweep, env, issuedCount, begun, passed>>

\* faulty variant: a rejected exchange is tried once more before the catch block answers
GetTokenRejects_Retries(h, err) ==
    /\ handlers[h].pc = "getToken"
    /\ IF handlers[h].calls < 2 THEN
           /\ handlers' = [handlers EXCEPT ![h].calls = @ + 1]
           /\ resp' = NoResponse
           /\ log' = NoLog
       ELSE
           /\ resp' = ExchangeFailedResponse(h)
           /\ log' = ExchangeFailedLog(err)
           /\ handlers' = [handlers EXCEPT ![h] = Idle]
    /\ UNCHANGED <<now, nextSweep, env, issuedCount, pendingStates, begun, passed>>

\* oauth2Client.getToken(code) rejects: the catch block answers
GetTokenRejects(h, err) ==
    /\ handlers[h].pc = "getToken"
    /\ resp' = ExchangeFailedResponse(h)
    /\ log' = ExchangeFailedLog(err)
    /\ handlers' = [handlers EXCEPT ![h] = Idle]
    /\ UNCHANGED <<now, nextSweep, env, issuedCount, pendingStates, begun, passed>>

\* the errors a provider call rejects with
\* (message, and config: the request the client library had sent)
ProviderErrors ==
    {[message |-> "invalid_grant",
      config |-> [client_secret |-> ClientSecret, code |-> AuthorizationCode]]}

\* the tokens the provider returns
ProviderTokens ==
    {[access_token |-> "ya29.access", refresh_token |-> RefreshToken,
      expiry_date |-> "expiry"]}

\* oauth2Client.getToken(code) resolves: setCredentials, then userinfo.get() and suspend
GetTokenResolves(h, tokens) ==
    /\ handlers[h].pc = "getToken"
    /\ handlers' = [handlers EXCEPT ![h] =
                       [pc |-> "userinfo", req |-> @.req, pendingState |-> @.pendingState,
                        calls |-> @.calls, tokens |-> tokens]]
    /\ resp' = NoResponse
    /\ log' = NoLog
    /\ UNCHANGED <<now, nextSweep, env, issuedCount, pendingStates, begun, passed>>

\* faulty variant: when only the user-info fetch failed, the tokens are returned anyway
UserinfoRejects_ReturnsTokens(h, err) ==
    /\ handlers[h].pc = "userinfo"
    /\ resp' = [route |-> "callback", status |-> 200,
                body |-> [success |-> TRUE, tokens |-> handlers[h].tokens],
                state |-> handlers[h].req.state]
    /\ log' = ExchangeFailedLog(err)
    /\ handlers' = [handlers EXCEPT ![h] = Idle]
    /\ UNCHANGED <<now, nextSweep, env, issuedCount, pendingStates, begun, passed>>

\* oauth2.userinfo.get() rejects: the catch block answers
UserinfoRejects(h, err) ==
    /\ handlers[h].pc = "userinfo"
    /\ resp' = ExchangeFailedResponse(h)
    /\ log' = ExchangeFailedLog(err)
    /\ handlers' = [handlers EXCEPT ![h] = Idle]
    /\ UNCHANGED <<now, nextSweep, env, issuedCount, pendingStates, begun, passed>>

\* the redirect target built from the stored return URL
RedirectTarget(pendingState, userInfo) ==
    LET returnUrl == IF Truthy(pendingState.returnUrl) THEN pendingState.returnUrl ELSE "/"
        separator == IF IncludesQuestionMark(returnUrl) THEN "&" ELSE "?"
    IN <<returnUrl, separator, "auth=success&email=", encodeURIComponent(userInfo.email)>>

\* the answer of a callback whose two provider calls succeeded; `state` notes
\* which request is answered
CallbackSuccess(h, userInfo) ==
    IF handlers[h].req.format = "json" THEN
        [route |-> "callback", status |-> 200,
         body |-> [success |-> TRUE,
                   user |-> userInfo,
                   tokens |-> handlers[h].tokens],
         state |-> handlers[h].req.state]
    ELSE
        [route |-> "callback", status |-> 302,
         location |-> RedirectTarget(handlers[h].pendingState, userInfo),
         state |-> handlers[h].req.state]

UserInfos == {[email |-> e, name |-> "A", picture |-> "pic"] : e \in Emails}

\* what the callback prints once both provider calls have succeeded
OAuthSuccessLog(userInfo, tokens) ==
    <<LogEntry("log", "OAuth success:",
               [email |-> Join(userInfo.email),
                hasRefreshToken |-> IF Truthy(tokens.refresh_token) THEN "true" ELSE "false"])>>

\* oauth2.userinfo.get() resolves: JSON answer or redirect
UserinfoResolves(h, userInfo) ==
    /\ handlers[h].pc = "userinfo"
    /\ resp' = CallbackSuccess(h, userInfo)
    /\ log' = OAuthSuccessLog(userInfo, handlers[h].tokens)
    /\ handlers' = [handlers EXCEPT ![h] = Idle]
    /\ UNCHANGED <<now, nextSweep, env, issuedCount, pendingStates, begun, passed>>

\* handlers suspended in the refresh handler: refreshAccessToken() has been called
Refreshing == {h \in DOMAIN handlers : handlers[h].pc = "refreshAccessToken"}

\* req.body.refresh_token of a POST /refresh request
RefreshBodies == {Absent, "", RefreshToken}

MissingRefreshTokenResponse ==
    [route |-> "refresh", status |-> 400, body |-> [error |-> "Missing refresh_token"]]

\* POST /precombopulator/refresh, from entry to the early return or to the
\* await of refreshAccessToken()
Refresh(refresh_token) ==
    IF ~Truthy(refresh_token) THEN
        /\ resp' = MissingRefreshTokenResponse
        /\ log' = NoLog
        /\ UNCHANGED <<now, nextSweep, env, issuedCount, pendingStates, handlers, begun, passed>>
    ELSE
        \* setCredentials({ refresh_token }), then call refreshAccessToken() and suspend
        /\ IdleHandlers # {}
        /\ handlers' = [handlers EXCEPT ![FreeHandler] =
                           [pc |-> "refreshAccessToken", refresh_token |-> refresh_token,
                            calls |-> 1]]
        /\ resp' = NoResponse
        /\ log' = NoLog
        /\ UNCHANGED <<now, nextSweep, env, issuedCount, pendingStates, begun, passed>>

\* the credentials the provider returns for a refresh
RefreshedCredentials ==
    {[access_token |-> "ya29.refreshed", refresh_token |-> RefreshToken,
      expiry_date |-> "expiry", token_type |-> "Bearer"]}

\* the answer of a successful refresh: two fields of the credentials
RefreshedResponse(credentials) ==
    [route |-> "refresh", status |-> 200,
     body |-> [access_token |-> credentials.access_token,
               expiry_date |-> credentials.expiry_date]]

\* oauth2Client.refreshAccessToken() resolves
RefreshResolves(h, credentials) ==
    /\ handlers[h].pc = "refreshAccessToken"
    /\ resp' = RefreshedResponse(credentials)
    /\ log' = NoLog
    /\ handlers' = [handlers EXCEPT ![h] = Idle]
    /\ UNCHANGED <<now, nextSweep, env, issuedCount, pendingStates, begun, passed>>

\* faulty variant: a rejected refresh is answered as an internal error
RefreshFailedResponse_InternalError ==
    [route |-> "refresh", status |-> 500, body |-> [error |-> "Internal server error"]]

\* what the catch block of the refresh handler answers
RefreshFailedResponse ==
    [route |-> "refresh", status |-> 401, body |-> [error |-> "Failed to refresh token"]]

\* what the catch block of the refresh handler prints: err.message
RefreshFailedLog(err) ==
    <<LogEntry("error", "Token refresh failed:", [message |-> err.message])>>

\* oauth2Client.refreshAccessToken() rejects: the catch block answers
RefreshRejects(h, err) ==
    /\ handlers[h].pc = "refreshAccessToken"
    /\ resp' = RefreshFailedResponse
    /\ log' = RefreshFailedLog(err)
    /\ handlers' = [handlers EXCEPT ![h] = Idle]
    /\ UNCHANGED <<now, nextSweep, env, issuedCount, pendingStates, begun, passed>>

Next ==
    \/ Tick
    \/ SweepTimer
    \/ Health
    \/ \E i \in Initiators : AuthBegin(i.return_url, i.ip)
    \/ \E req \in CallbackRequests : Callback(req)
    \/ \E h \in DOMAIN handlers, err \in ProviderErrors : GetTokenRejects(h, err)
    \/ \E h \in DOMAIN handlers, tokens \in ProviderTokens : GetTokenResolves(h, tokens)
    \/ \E h \in DOMAIN handlers, err \in ProviderErrors : UserinfoRejects(h, err)
    \/ \E h \in DOMAIN handlers, userInfo \in UserInfos : UserinfoResolves(h, userInfo)

\* The authorization flow: begin, callback, sweep.
Spec == Init /\ [][Next]_vars

\* The whole server: the authorization flow and the refresh handler, which
\* shares no state with it.
ServerInit ==
    /\ now = 0
    /\ nextSweep = SWEEP_PERIOD_MINUTES
    /\ env \in DefaultReturnUrls
    /\ issuedCount = 0
    /\ pendingStates = EmptyMap
    /\ handlers = [h \in 1..MaxServerHandlers |-> Idle]
    /\ resp = NoResponse
    /\ log = StartupLog
    /\ begun = EmptyMap
    /\ passed = [t \in Tokens |-> 0]

ServerNext ==
    \/ Next
    \/ \E refresh_token \in RefreshBodies : Refresh(refresh_token)
    \/ \E h \in DOMAIN handlers, credentials \in RefreshedCredentials :
          RefreshResolves(h, credentials)
    \/ \E h \in DOMAIN handlers, err \in ProviderErrors : RefreshRejects(h, err)

ServerSpec == ServerInit /\ [][ServerNext]_vars

----------------------------------------------------------------------------
\* Vocabulary of the properties.

\* handlers suspended in the callback, after state validation: getToken has been called
InFlight == {h \in DOMAIN handlers : handlers[h].pc \in {"getToken", "userinfo"}}

\* a callback request that gets as far as the state lookup
ReachesLookup(req) == ~Truthy(req.error) /\ Truthy(req.code) /\ Truthy(req.state)

\* the age of the record of a live token
Age(t) == now - pendingStates[t].created

\* this step is the interval timer's callback
IsSweepStep == now = nextSweep /\ nextSweep' # nextSweep

----------------------------------------------------------------------------
\* C1 as stated: for every token issued by begin, the first consume finds the
\* original record whatever happens in between, i.e. as long as no callback has
\* consumed the token its record is still in the map.
C1_FirstConsumeAlwaysFinds ==
    \A t \in IssuedTokens : passed[t] = 0 => t \in DOMAIN pendingStates

\* C1 as amended: a token leaves the map only by a callback that found it or by a
\* sweep that finds it older than the threshold; the callback that finds it gets
\* the record stored at begin (returnUrl and ip); at most one callback finds it;
\* and from then on the token is not in the map, so that every later callback
\* that reaches the lookup with it is answered state-not-found (400).
C1_ConsumeOnce ==
    /\ [](\A t \in IssuedTokens :
            /\ passed[t] <= 1
            /\ t \in DOMAIN pendingStates =>
                   passed[t] = 0 /\ Kept(pendingStates[t]) = begun[t]
            /\ \A h \in InFlight :
                   handlers[h].req.state = t => handlers[h].pendingState = begun[t]
            /\ \A req \in CallbackRequests :
                   (req.state = t /\ passed[t] >= 1 /\ ReachesLookup(req)) =>
                       /\ CallbackEarlyReturn(req).status = 400
                       /\ CallbackEarlyReturn(req).body =
                              [error |-> "Invalid or expired state. Please try again."])
    /\ [][\A t \in IssuedTokens :
            (t \in DOMAIN pendingStates /\ t \notin DOMAIN pendingStates') =>
                \/ passed'[t] = 1 /\ \E h \in InFlight' : handlers'[h].req.state = t
                \/ IsSweepStep /\ Age(t) > EXPIRY_MINUTES]_vars

\* C1's case: a token was consumed, its handler has finished, and a second
\* callback with the same token has just been answered state-not-found
C1_Witness ==
    /\ InFlight = {}
    /\ \E t \in IssuedTokens : passed[t] = 1
    /\ resp = InvalidStateResponse("consumed")

\* the not-found answer as the client sees it
NotFoundAnswer(r) ==
    /\ r.route = "callback"
    /\ r.status = 400
    /\ r.body = [error |-> "Invalid or expired state. Please try again."]

----------------------------------------------------------------------------
\* C2: getToken is called only by a handler whose state matched a record that
\* begin put in the map and that was in the map at the lookup; a callback whose
\* state was never issued runs into an early return with status 400, and every
\* success answer (200 or 302) belongs to a state that was issued and matched.
C2_ExchangeOnlyAfterMatch ==
    /\ [](/\ \A h \in InFlight :
                /\ handlers[h].req.state \in IssuedTokens
                /\ handlers[h].pendingState = begun[handlers[h].req.state]
          /\ \A req \in CallbackRequests :
                req.state \notin IssuedTokens =>
                    /\ CallbackEarlyReturn(req) # NoResponse
                    /\ CallbackEarlyReturn(req).status = 400
          /\ (resp.route = "callback" /\ resp.status \in {200, 302}) =>
                resp.state \in IssuedTokens /\ passed[resp.state] >= 1)
    /\ [][\A h \in DOMAIN handlers :
            (handlers[h].pc = "idle" /\ handlers'[h].pc = "getToken") =>
                /\ handlers'[h].req.state \in DOMAIN pendingStates
                /\ handlers'[h].pendingState = Kept(pendingStates[handlers'[h].req.state])]_vars

\* C2's case: a callback with a state that was never issued has been answered 400
\* while a flow is pending
C2_Witness ==
    /\ resp = InvalidStateResponse("never")
    /\ DOMAIN pendingStates # {}

----------------------------------------------------------------------------
\* C3 as stated: a callback handled more than 10 minutes after its state token
\* was issued does not pass the state validation, whenever the sweep last ran.
C3_ExpiredStateRejected ==
    [][\A t \in DOMAIN pendingStates :
          passed'[t] > passed[t] => Age(t) <= EXPIRY_MINUTES]_vars

----------------------------------------------------------------------------
\* C4: a sweep removes every record older than 10 minutes; hence no record that
\* was older than that at the latest sweep is in the map; a token that has left
\* the map never comes back; and a callback presenting a token that is no
\* longer in the map is answered state-not-found.
C4_SweepRemovesExpired ==
    /\ [](/\ \A t \in DOMAIN pendingStates :
                (nextSweep - SWEEP_PERIOD_MINUTES) - pendingStates[t].created
                    <= EXPIRY_MINUTES
          /\ \A req \in CallbackRequests :
                (ReachesLookup(req) /\ req.state \in IssuedTokens \ DOMAIN pendingStates) =>
                    NotFoundAnswer(CallbackEarlyReturn(req)))
    /\ [][/\ IsSweepStep =>
                \A t \in DOMAIN pendingStates :
                    Age(t) > EXPIRY_MINUTES => t \notin DOMAIN pendingStates'
          /\ \A t \in IssuedTokens :
                t \notin DOMAIN pendingStates => t \notin DOMAIN pendingStates']_vars

\* C4's case: a record was swept and a later callback with its token has been
\* answered state-not-found
C4_Witness ==
    /\ resp = InvalidStateResponse("swept")
    /\ now >= EXPIRY_MINUTES + 1

----------------------------------------------------------------------------
\* C5: when getToken rejects, the answer is 500 with the exchange-failed body;
\* the state token is out of the map from before the exchange is awaited, stays
\* out, and a later callback with it is answered state-not-found.
C5_FailedExchangeConsumes ==
    /\ [](/\ \A h \in InFlight : handlers[h].req.state \notin DOMAIN pendingStates
          /\ (resp.route = "callback" /\ resp.status = 500) =>
                /\ resp.body = [error |-> "Failed to exchange authorization code"]
                /\ resp.state \notin DOMAIN pendingStates
                /\ passed[resp.state] = 1
                /\ \A req \in CallbackRequests :
                      (ReachesLookup(req) /\ req.state = resp.state) =>
                          NotFoundAnswer(CallbackEarlyReturn(req)))
    /\ [][\A h \in DOMAIN handlers :
            (handlers[h].pc = "getToken" /\ handlers'[h].pc = "idle") =>
                /\ resp'.status = 500
                /\ resp'.state = handlers[h].req.state
                /\ resp'.state \notin DOMAIN pendingStates']_vars

\* C5's case: the exchange of a callback with a live state has failed
C5_Witness ==
    /\ resp.route = "callback"
    /\ resp.status = 500
    /\ resp.after = "getToken"

----------------------------------------------------------------------------
\* C6: of the callbacks presenting one state token at most one passes the state
\* validation, and while a handler is suspended in a provider call its token is
\* not in the map (lookup and removal are one step).
C6_AtMostOnePasses ==
    \A t \in Tokens :
        /\ passed[t] <= 1
        /\ Cardinality({h \in InFlight : handlers[h].req.state = t}) <= passed[t]
        /\ passed[t] = 1 => t \notin DOMAIN pendingStates

\* C6's case: while one handler is suspended in getToken, a second callback with
\* the same token has been answered state-not-found
C6_Witness ==
    /\ \E h \in InFlight : handlers[h].pc = "getToken" /\ passed[handlers[h].req.state] = 1
    /\ resp = InvalidStateResponse("consumed")

----------------------------------------------------------------------------
\* C7: whatever the history of the presented token (never issued, consumed,
\* swept), a callback that reaches the lookup and does not find it gets the
\* same status and the same body.
C7_NotFoundIndistinguishable ==
    /\ \A req \in CallbackRequests :
          (ReachesLookup(req) /\ req.state \notin DOMAIN pendingStates) =>
              NotFoundAnswer(CallbackEarlyReturn(req))
    /\ (resp.route = "callback" /\ "history" \in DOMAIN resp) => NotFoundAnswer(resp)

\* C7's case: tokens of all three histories exist and the swept one has just
\* been presented
C7_Witness ==
    /\ resp = InvalidStateResponse("swept")
    /\ \E t \in IssuedTokens : History(t) = "consumed"
    /\ History("nonexistent-token") = "never"

----------------------------------------------------------------------------
----------------------------------------------------------------------------
\* C9 as stated: every callback request that lacks code or state is answered
\* 400 "Missing required parameters".
C9_MissingParams ==
    [][\A req \in CallbackRequests :
          ((~Truthy(req.code) \/ ~Truthy(req.state)) /\ Callback(req)) =>
              /\ resp'.status = 400
              /\ resp'.body = [error |-> "Missing required parameters"]]_vars

\* C9 as amended: every callback request that carries no error parameter and
\* lacks code or state is answered 400 "Missing required parameters".
C9_MissingParamsNoError ==
    \A req \in CallbackRequests :
        (~Truthy(req.error) /\ (~Truthy(req.code) \/ ~Truthy(req.state))) =>
            /\ CallbackEarlyReturn(req).status = 400
            /\ CallbackEarlyReturn(req).body = [error |-> "Missing required parameters"]

\* C9's case: a callback has been answered "Missing required parameters" while a
\* flow is pending
C9_Witness ==
    /\ resp.route = "callback"
    /\ resp.status = 400
    /\ resp.body = [error |-> "Missing required parameters"]
    /\ DOMAIN pendingStates # {}

----------------------------------------------------------------------------
\* C10: the redirect of a successful callback starts with the returnUrl stored
\* by the begin that issued the presented state, and a begin stores the
\* return_url of its request if there is one, else the configured default, else "/".
C10_RedirectToOwnReturnUrl ==
    /\ []((resp.route = "callback" /\ resp.status = 302) =>
              resp.location[1] = begun[resp.state].returnUrl)
    /\ [][\A i \in Initiators :
            AuthBegin(i.return_url, i.ip) =>
                LET stored == pendingStates'[uuidv4(issuedCount)] IN
                /\ stored.ip = i.ip
                /\ stored.returnUrl =
                       IF i.return_url \notin {Absent, ""} THEN i.return_url
                       ELSE IF env \notin {Absent, ""} THEN env
                       ELSE "/"
                /\ begun'[uuidv4(issuedCount)] = Kept(stored)]_vars

\* C10's case: two flows with different return URLs were begun, one is still
\* pending and the other has just been redirected
C10_Witness ==
    /\ resp.route = "callback"
    /\ resp.status = 302
    /\ \E t \in DOMAIN pendingStates :
          pendingStates[t].returnUrl # begun[resp.state].returnUrl

----------------------------------------------------------------------------
\* C11: POST /refresh answers 400 without calling the provider when the body
\* has no refresh_token, 401 when the provider rejects the refresh, and 200 with
\* exactly {access_token, expiry_date} of the returned credentials when the
\* provider succeeds; it gives no other answer.
C11_RefreshOutcomes ==
    /\ [](resp.route = "refresh" =>
              /\ resp.status \in {400, 401, 200}
              /\ resp.status = 200 => DOMAIN resp.body = {"access_token", "expiry_date"}
              /\ resp.status # 200 => DOMAIN resp.body = {"error"})
    /\ [][/\ \A refresh_token \in RefreshBodies :
                Refresh(refresh_token) =>
                    IF refresh_token \in {Absent, ""}
                    THEN resp'.status = 400 /\ handlers' = handlers
                    ELSE resp' = NoResponse /\ Cardinality(Refreshing') = Cardinality(Refreshing) + 1
          /\ \A h \in Refreshing :
                handlers'[h] # handlers[h] =>
                    /\ handlers'[h].pc = "idle"
                    /\ resp'.route = "refresh"
                    /\ resp'.status \in {401, 200}
                    /\ \A err \in ProviderErrors : RefreshRejects(h, err) => resp'.status = 401
                    /\ \A credentials \in RefreshedCredentials :
                          RefreshResolves(h, credentials) =>
                              /\ resp'.status = 200
                              /\ resp'.body = [access_token |-> credentials.access_token,
                                               expiry_date |-> credentials.expiry_date]]_vars

\* C11's case: the provider has just rejected a refresh, which was answered 401
C11_Witness ==
    /\ resp.route = "refresh"
    /\ resp.status = 401
    /\ Refreshing = {}

----------------------------------------------------------------------------
\* the secrets: client secret, authorization code, access tokens, refresh tokens
Secrets ==
    {ClientSecret, AuthorizationCode, RefreshToken}
        \cup {tokens.access_token : tokens \in ProviderTokens}
        \cup {tokens.refresh_token : tokens \in ProviderTokens}
        \cup {credentials.access_token : credentials \in RefreshedCredentials}
        \cup {credentials.refresh_token : credentials \in RefreshedCredentials}

\* the values printed by the latest step
LoggedValues ==
    UNION {{log[i].values[f] : f \in DOMAIN log[i].values} : i \in DOMAIN log}

\* the parts of the URL the latest step redirected to
RedirectUrlParts ==
    IF "location" \notin DOMAIN resp THEN {}
    ELSE IF resp.route = "auth" THEN {resp.location[f] : f \in DOMAIN resp.location}
    ELSE {resp.location[1], resp.location[2], resp.location[3], Join(resp.location[4])}

\* C12: no secret (client secret, authorization code, access token, refresh
\* token) is a value printed in a console entry or a part of a redirect URL, in
\* any step of the auth, callback and refresh handlers.
C12_NoSecretInUrlOrLog ==
    /\ LoggedValues \cap Secrets = {}
    /\ RedirectUrlParts \cap Secrets = {}

\* C12's case: a callback that held the code and the provider's tokens has
\* just printed its entry and redirected
C12_Witness ==
    /\ resp.route = "callback"
    /\ resp.status = 302
    /\ RedirectUrlParts # {}
    /\ \E i \in DOMAIN log : log[i].message = "OAuth success:"

----------------------------------------------------------------------------
\* One minute passes, on a clock that covers four sweep periods.
LiveTick ==
    /\ now < LiveMaxTime
    /\ now < nextSweep
    /\ now' = now + 1
    /\ resp' = NoResponse
    /\ log' = NoLog
    /\ UNCHANGED <<nextSweep, env, issuedCount, pendingStates, handlers, begun, passed>>

LiveNext ==
    \/ LiveTick
    \/ SweepTimer
    \/ \E i \in Initiators : AuthBegin(i.return_url, i.ip)
    \/ \E req \in CallbackRequests : Callback(req)
    \/ \E h \in DOMAIN handlers, err \in ProviderErrors : GetTokenRejects(h, err)
    \/ \E h \in DOMAIN handlers, tokens \in ProviderTokens : GetTokenResolves(h, tokens)
    \/ \E h \in DOMAIN handlers, err \in ProviderErrors : UserinfoRejects(h, err)
    \/ \E h \in DOMAIN handlers, userInfo \in UserInfos : UserinfoResolves(h, userInfo)

\* The authorization flow when time advances and the interval timer keeps
\* firing (one callback in flight at a time).
LiveSpec == ServerInit /\ [][LiveNext]_vars /\ WF_vars(LiveTick) /\ WF_vars(SweepTimer)

\* the record of t was created early enough for the sweep that removes it to
\* fall within the minutes the clock covers
SweepDueInTime(t) ==
    pendingStates[t].created + EXPIRY_MINUTES + SWEEP_PERIOD_MINUTES <= LiveMaxTime

\* C13: every record put in the map is eventually removed (by a callback that
\* finds it or by the sweep), and no record is in the map with an age of more
\* than 15 minutes (expiry threshold plus one sweep period).
C13_EventuallyRemoved ==
    /\ [](\A t \in DOMAIN pendingStates : Age(t) <= EXPIRY_MINUTES + SWEEP_PERIOD_MINUTES)
    /\ \A t \in Tokens :
          (t \in DOMAIN pendingStates /\ SweepDueInTime(t)) ~> (t \notin DOMAIN pendingStates)

\* C13's case: a record no callback consumed has reached the age of 15 minutes
\* and the sweep that removes it is due
C13_Witness ==
    /\ now = nextSweep
    /\ \E t \in DOMAIN pendingStates : Age(t) = EXPIRY_MINUTES + SWEEP_PERIOD_MINUTES

----------------------------------------------------------------------------
\* the times at which a sweep of the current map is considered: from now until
\* every record in it is past the threshold
SweepTimes == now..(now + EXPIRY_MINUTES + 1)

\* C14: sweeping twice at the same time leaves the same map as sweeping once,
\* and a sweep leaves every record whose age is at most 10 minutes (exactly 10
\* included) in the map with its fields unchanged and adds nothing; the
\* timer's step is such a sweep.
C14_SweepIdempotentKeepsFresh ==
    /\ [](\A t \in SweepTimes :
            LET once == SweepExpired(pendingStates, t) IN
            /\ SweepExpired(once, t) = once
            /\ DOMAIN once \subseteq DOMAIN pendingStates
            /\ \A k \in DOMAIN pendingStates :
                  t - pendingStates[k].created <= EXPIRY_MINUTES =>
                      k \in DOMAIN once /\ once[k] = pendingStates[k])
    /\ [][IsSweepStep =>
            /\ pendingStates' = SweepExpired(pendingStates, now)
            /\ \A k \in DOMAIN pendingStates :
                  Age(k) <= EXPIRY_MINUTES =>
                      k \in DOMAIN pendingStates' /\ pendingStates'[k] = pendingStates[k]]_vars

\* C14's case: the sweep at minute 10 has just run and has kept a record that
\* is exactly 10 minutes old
C14_Witness ==
    /\ now = EXPIRY_MINUTES
    /\ nextSweep = EXPIRY_MINUTES + SWEEP_PERIOD_MINUTES
    /\ \E t \in DOMAIN pendingStates : Age(t) = EXPIRY_MINUTES

----------------------------------------------------------------------------
\* C15: a request makes its provider call (code-for-token exchange, refresh)
\* at most once, and a rejection of that call ends the request with its error
\* answer: 500 for the callback, 401 for the refresh.
C15_NoRetry ==
    /\ [](\A h \in InFlight \cup Refreshing : handlers[h].calls <= 1)
    /\ [][\A h \in DOMAIN handlers :
            /\ (handlers[h].pc = "getToken" /\ handlers'[h] # handlers[h]) =>
                   \/ handlers'[h].pc = "userinfo" /\ handlers'[h].calls = handlers[h].calls
                   \/ /\ handlers'[h].pc = "idle"
                      /\ resp'.route = "callback"
                      /\ resp'.status = 500
                      /\ resp'.state = handlers[h].req.state
            /\ (handlers[h].pc = "refreshAccessToken" /\ handlers'[h] # handlers[h]) =>
                   /\ handlers'[h].pc = "idle"
                   /\ resp'.route = "refresh"
            /\ \A err \in ProviderErrors :
                   /\ GetTokenRejects(h, err) =>
                          handlers'[h].pc = "idle" /\ resp'.status = 500
                   /\ RefreshRejects(h, err) =>
                          handlers'[h].pc = "idle" /\ resp'.status = 401]_vars

\* C15's case: the exchange of a callback has been rejected; the request has
\* been answered and nothing is left in flight
C15_Witness ==
    /\ resp.route = "callback"
    /\ resp.status = 500
    /\ resp.after = "getToken"
    /\ InFlight \cup Refreshing = {}
    /\ \E i \in DOMAIN log : log[i].message = "Token exchange failed:"

----------------------------------------------------------------------------
\* the error codes the callback requests carry
ProviderErrorCodes == {req.error : req \in CallbackRequests} \ {Absent, ""}

\* C16: a callback with an error parameter is answered 400 with the provider's
\* error code whatever else it carries (code and a live state included); the
\* step leaves the map, the suspended handlers and the history as they were;
\* and a token that is in the map passes the validation of a later callback
\* that carries it with a code and no error.
C16_DenialLeavesState ==
    /\ [](\A req \in CallbackRequests :
            /\ req.error \notin {Absent, ""} =>
                   /\ CallbackEarlyReturn(req).status = 400
                   /\ CallbackEarlyReturn(req).body =
                          [error |-> "Google OAuth error: " \o req.error]
            /\ (ReachesLookup(req) /\ req.state \in DOMAIN pendingStates) =>
                   CallbackEarlyReturn(req) = NoResponse)
    /\ [][\A error \in ProviderErrorCodes :
            (resp'.route = "callback" /\ resp'.status = 400
                 /\ resp'.body = [error |-> "Google OAuth error: " \o error]) =>
                /\ pendingStates' = pendingStates
                /\ handlers' = handlers
                /\ passed' = passed]_vars

\* C16's case: a denial has just been answered while the flow's record is in
\* the map, where it has been for more than 10 minutes, not yet swept
C16_Witness ==
    /\ resp.route = "callback"
    /\ resp.status = 400
    /\ resp.body = [error |-> "Google OAuth error: access_denied"]
    /\ \E t \in DOMAIN pendingStates : Age(t) > EXPIRY_MINUTES

----------------------------------------------------------------------------
\* C17: when the exchange succeeded and the user-info fetch is rejected, the
\* callback answers 500 {error: "Failed to exchange authorization code"}; the
\* answer carries no tokens and no redirect; the state token is not in the map
\* and a later callback with it is answered state-not-found.
C17_UserinfoFailure ==
    /\ []((resp.route = "callback" /\ "after" \in DOMAIN resp /\ resp.after = "userinfo") =>
              /\ resp.status = 500
              /\ resp.body = [error |-> "Failed to exchange authorization code"]
              /\ "location" \notin DOMAIN resp
              /\ resp.state \notin DOMAIN pendingStates
              /\ passed[resp.state] = 1
              /\ \A req \in CallbackRequests :
                    (ReachesLookup(req) /\ req.state = resp.state) =>
                        NotFoundAnswer(CallbackEarlyReturn(req)))
    /\ [][\A h \in DOMAIN handlers :
            \A err \in ProviderErrors :
                (handlers[h].pc = "userinfo" /\ UserinfoRejects(h, err)) =>
                    /\ resp'.status = 500
                    /\ resp'.body = [error |-> "Failed to exchange authorization code"]
                    /\ "location" \notin DOMAIN resp'
                    /\ resp'.state = handlers[h].req.state
                    /\ resp'.state \notin DOMAIN pendingStates'
                    /\ pendingStates' = pendingStates
                    /\ handlers'[h].pc = "idle"]_vars

\* C17's case: the user-info fetch of a callback whose exchange had succeeded
\* has just been rejected
C17_Witness ==
    /\ resp.route = "callback"
    /\ resp.status = 500
    /\ resp.after = "userinfo"
    /\ resp.state \notin DOMAIN pendingStates

----------------------------------------------------------------------------
\* C18: a key enters the map only in a step of begin, one key per step; a key
\* leaves it only in the timer's step or in the step of a callback that passed
\* the state validation with that key; a record that stays is not modified;
\* and the steps of the health and refresh handlers, the callbacks answered
\* 400 and the continuations of suspended handlers leave the map as it was.
C18_OnlyBeginAddsOnlyConsumeOrSweepRemoves ==
    [][/\ DOMAIN pendingStates' \ DOMAIN pendingStates # {} =>
              /\ resp'.route = "auth"
              /\ Cardinality(DOMAIN pendingStates' \ DOMAIN pendingStates) = 1
              /\ issuedCount' = issuedCount + 1
       /\ \A k \in DOMAIN pendingStates \ DOMAIN pendingStates' :
              \/ IsSweepStep
              \/ /\ passed'[k] = passed[k] + 1
                 /\ \E h \in InFlight' \ InFlight : handlers'[h].req.state = k
       /\ \A k \in DOMAIN pendingStates \cap DOMAIN pendingStates' :
              pendingStates'[k] = pendingStates[k]
       /\ resp'.route \in {"health", "refresh"} => pendingStates' = pendingStates
       /\ (resp'.route = "callback" /\ resp'.status = 400) => pendingStates' = pendingStates
       /\ \A h \in DOMAIN handlers :
              (handlers'[h] # handlers[h]
                   /\ (h \in Refreshing \cup Refreshing' \/ h \in InFlight)) =>
                  pendingStates' = pendingStates]_vars

\* C18's case: a refresh has just been answered while two flows are pending
C18_Witness ==
    /\ resp.route = "refresh"
    /\ resp.status = 200
    /\ Cardinality(DOMAIN pendingStates) = 2

====
